---------------------------- MODULE Spec2Model ----------------------------
(***************************************************************************)
(* arducli: probe of a Pivariety camera over a register-oriented I2C       *)
(* channel.  The program is sequential; one action of the model is one     *)
(* register operation (camera.readReg / camera.writeReg), one settle delay *)
(* or one pure step of arducli.py.  The device is the environment: what a  *)
(* register read returns is chosen freely at every read.                   *)
(***************************************************************************)
EXTENDS Integers, Sequences, FiniteSets, TLC

(***************************************************************************)
(* Bounds of the model.                                                    *)
(***************************************************************************)
\* devices in a batch
MaxDevs == 2
\* pixel formats a device may expose before it must answer with the sentinel
MaxPix == 2
\* resolutions a device may expose in one enumeration
MaxRes == 2
\* controls a device may expose in one enumeration
MaxCtrl == 2
\* longest declared software-version length the device answers with
MaxVerLen == 5

(***************************************************************************)
(* Register map and sentinel, arducli.py lines 24-52.  A register value is *)
(* an unsigned 32-bit word, kept as the pair <<high 16 bits, low 16 bits>>.*)
(***************************************************************************)
DEVICE_VERSION_REG == 257
DEVICE_ID_REG == 259
FIRMWARE_SENSOR_ID_REG == 261
UNIQUE_ID_REG == 262
SOFT_VERSION_LEN_REG == 496
SOFT_VERSION_INDEX_REG == 497
SOFT_VERSION_REG == 498
PIXFORMAT_INDEX_REG == 512
PIXFORMAT_TYPE_REG == 513
PIXFORMAT_ORDER_REG == 514
MIPI_LANES_REG == 515
RESOLUTION_INDEX_REG == 768
FORMAT_WIDTH_REG == 769
FORMAT_HEIGHT_REG == 770
CTRL_INDEX_REG == 1024
CTRL_ID_REG == 1025
CTRL_MIN_REG == 1026
CTRL_MAX_REG == 1027
CTRL_DEF_REG == 1029
CTRL_VALUE_REG == 1030

\* the 32-bit word of a number below 2^31
Word(n) == << n \div 65536, n % 65536 >>

\* 0xFFFFFFFE
NO_DATA_AVAILABLE == << 65535, 65534 >>

\* w > n for a word w and a number n below 2^16 (lines 211, 218)
WordGt(w, n) == w[1] > 0 \/ w[2] > n

\* the number a word not above 65535 stands for
WordInt(w) == w[2]

\* control id compared at line 159: 0x981906, "Framerate"
FRAMERATE_ID == << 152, 6406 >>

\* iteration ceiling the specification asks of every enumeration loop
\* (spec section 4.3); arducli.py has no such constant
CEILING == 256

\* Python's None, told apart from every word
None == << >>

(***************************************************************************)
(* Lookup tables, arducli.py lines 55-110.                                 *)
(***************************************************************************)
\* dict.get(key, default) on a table given as a set of <<key, name>> pairs
Get(table, key, default) ==
    IF \E p \in table : p[1] = key
    THEN (CHOOSE p \in table : p[1] = key)[2]
    ELSE default

pix_type_map ==
    { <<Word(42), "RAW8">>, <<Word(43), "RAW10">>, <<Word(44), "RAW12">>,
      <<Word(24), "YUV420_8BIT">>, <<Word(25), "YUV420_10BIT">>,
      <<Word(30), "YUV422_8BIT">>, <<Word(48), "JPEG">> }

raw_bayer_order ==
    { <<Word(0), "BGGR">>, <<Word(1), "GBRG">>, <<Word(2), "GRBG">>,
      <<Word(3), "RGGB">>, <<Word(4), "MONO">> }

yuv_order ==
    { <<Word(0), "YUYV">>, <<Word(1), "YVYU">>, <<Word(2), "UYVY">>,
      <<Word(3), "VYUY">> }

\* the entries of ID_map the model's devices answer with:
\* 0x980911 Exposure, 0x981906 Framerate
ID_map ==
    { << <<152, 2321>>, "Exposure" >>, << <<152, 6406>>, "Framerate" >> }

\* pix_type in [0x18, 0x19, 0x1E]
IsYuvType(t) == t \in { Word(24), Word(25), Word(30) }

\* pix_type in [0x2A, 0x2B, 0x2C]
IsRawType(t) == t \in { Word(42), Word(43), Word(44) }

\* mutant of FourccOf: the order tables default to "Unknown", as main does
\* at lines 317 and 319
FourccOfUnknownDefault(t, o) ==
    IF IsYuvType(t) THEN Get(yuv_order, o, "Unknown")
    ELSE IF IsRawType(t) THEN Get(raw_bayer_order, o, "Unknown")
    ELSE IF t = Word(48) THEN "MJPG"
    ELSE "UNKN"

\* list_formats, lines 181-188: the FOURCC of a pixel type and order code
FourccOf(t, o) ==
    IF IsYuvType(t) THEN Get(yuv_order, o, "YUYV")
    ELSE IF IsRawType(t) THEN Get(raw_bayer_order, o, "RGGB")
    ELSE IF t = Word(48) THEN "MJPG"
    ELSE "UNKN"

\* mutant of OrderOf: an unmapped order takes the default of list_formats
OrderOfDefaulted(t, o) ==
    IF IsRawType(t) THEN Get(raw_bayer_order, o, "RGGB")
    ELSE IF IsYuvType(t) THEN Get(yuv_order, o, "YUYV")
    ELSE None

\* main, lines 314-319: the order name logged by the full probe (None: no order)
OrderOf(t, o) ==
    IF IsRawType(t) THEN Get(raw_bayer_order, o, "Unknown")
    ELSE IF IsYuvType(t) THEN Get(yuv_order, o, "Unknown")
    ELSE None

(***************************************************************************)
(* Integer and text helpers: Python's &, >>, format specs x, 02x, 02d.     *)
(***************************************************************************)
RECURSIVE BitAnd(_, _)
BitAnd(a, b) ==
    IF a = 0 \/ b = 0 THEN 0
    ELSE (a % 2) * (b % 2) + 2 * BitAnd(a \div 2, b \div 2)

RECURSIVE ShiftRight(_, _)
ShiftRight(a, n) == IF n = 0 THEN a ELSE ShiftRight(a \div 2, n - 1)

HexDigits ==
    << "0", "1", "2", "3", "4", "5", "6", "7",
       "8", "9", "a", "b", "c", "d", "e", "f" >>

\* format(n, "x")
RECURSIVE FmtHex(_)
FmtHex(n) ==
    IF n < 16 THEN HexDigits[n + 1]
    ELSE FmtHex(n \div 16) \o HexDigits[(n % 16) + 1]

\* format(n, "d")
RECURSIVE FmtDec(_)
FmtDec(n) ==
    IF n < 10 THEN HexDigits[n + 1]
    ELSE FmtDec(n \div 10) \o HexDigits[(n % 10) + 1]

\* format(n, "02x"): zero-padded to a width of at least 2
FmtHex02(n) == IF n < 16 THEN "0" \o FmtHex(n) ELSE FmtHex(n)

\* format(n, "02d"): zero-padded to a width of at least 2
FmtDec02(n) == IF n < 10 THEN "0" \o FmtDec(n) ELSE FmtDec(n)

UpperHexDigits ==
    << "0", "1", "2", "3", "4", "5", "6", "7",
       "8", "9", "A", "B", "C", "D", "E", "F" >>

\* format(n, "X")
RECURSIVE FmtHexUpper(_)
FmtHexUpper(n) ==
    IF n < 16 THEN UpperHexDigits[n + 1]
    ELSE FmtHexUpper(n \div 16) \o UpperHexDigits[(n % 16) + 1]

\* number of hexadecimal digits of n
RECURSIVE HexLen(_)
HexLen(n) == IF n < 16 THEN 1 ELSE 1 + HexLen(n \div 16)

\* k zeros
RECURSIVE Zeros(_)
Zeros(k) == IF k <= 0 THEN "" ELSE "0" \o Zeros(k - 1)

\* format(n, "0wX"): zero-padded to a width of at least w
FmtHexUpperPad(n, w) == Zeros(w - HexLen(n)) \o FmtHexUpper(n)

\* format(v, "06X") of the word v = <<hi, lo>>, line 348
FmtWord06X(v) ==
    IF v[1] = 0 THEN FmtHexUpperPad(v[2], 6)
    ELSE FmtHexUpperPad(v[1], 2) \o FmtHexUpperPad(v[2], 4)

\* the year as line 232 prints it: the literal "20" followed by {year:02d}
FmtYear(year) == "20" \o FmtDec02(year)

\* parse_isp_fw_version, lines 223-232.  On the word <<hi, lo>> the code's
\* (v & 0xFFFF0000) >> 16 is hi and v & 0xFFFF is lo.
parse_isp_fw_version(v) ==
    LET isp_id       == v[1]
        isp_id_high  == ShiftRight(BitAnd(isp_id, 65280), 8)
        isp_id_low   == BitAnd(isp_id, 255)
        isp_fw_date  == v[2]
        isp_fw_year  == ShiftRight(isp_fw_date, 9)
        isp_fw_month == BitAnd(ShiftRight(isp_fw_date, 5), 15)
        isp_fw_day   == BitAnd(isp_fw_date, 31)
    IN  "v" \o FmtHex(isp_id_high) \o "." \o FmtHex02(isp_id_low) \o " "
            \o FmtYear(isp_fw_year) \o "/" \o FmtDec02(isp_fw_month)
            \o "/" \o FmtDec02(isp_fw_day)

(***************************************************************************)
(* What the device answers with.  Every read draws from one of these sets. *)
(***************************************************************************)
\* identity registers (device id, device version, sensor id)
IdentityValues == { Word(48) }

\* UNIQUE_ID_REG: 0x01020A43 (year 5) and 0x0102C821 (year 100)
FwValues == { <<258, 2627>>, <<258, 51233>> }

\* SOFT_VERSION_LEN_REG: the sentinel, 256, and every length up to MaxVerLen
LengthValues ==
    { NO_DATA_AVAILABLE, Word(256) } \cup { Word(n) : n \in 0..MaxVerLen }

\* SOFT_VERSION_REG: 'A', 'B' and the invalid code 300
CharValues == { Word(65), Word(66), Word(300) }

\* PIXFORMAT_TYPE_REG: RAW8, YUV422_8BIT, JPEG, an unmapped code, the sentinel
PixTypeValues == { Word(42), Word(30), Word(48), Word(153), NO_DATA_AVAILABLE }

\* PIXFORMAT_ORDER_REG: a mapped code, an unmapped code, the sentinel
PixOrderValues == { Word(0), Word(7), NO_DATA_AVAILABLE }

\* MIPI_LANES_REG
LaneValues == { Word(2), NO_DATA_AVAILABLE }

\* FORMAT_WIDTH_REG
WidthValues == { Word(640), NO_DATA_AVAILABLE }

\* FORMAT_HEIGHT_REG
HeightValues == { Word(480) }

\* CTRL_ID_REG when it is not the sentinel: Framerate (mapped) and the
\* unmapped id 0x123456
CtrlIdValues == { FRAMERATE_ID, <<18, 13398>> }

\* CTRL_MAX_REG, CTRL_MIN_REG, CTRL_DEF_REG
CtrlBoundValues == { Word(30), NO_DATA_AVAILABLE }

\* an index register read back as presence check, when it is not the sentinel
PresenceValues(i) == { Word(i) }

(***************************************************************************)
(* State.                                                                  *)
(***************************************************************************)
VARIABLES
    pc,                \* position in arducli.py
    args_bus,          \* main: args.bus, None or << bus >>
    args_device,       \* main: args.device, None or a path
    mapping_exists,    \* os.path.exists(DEFAULT_MAPPING_PATH)
    mapping,           \* content of the mapping file, loaded at line 258
    devices_to_probe,  \* main: the batch, a sequence of [bus, name]
    video_devs,        \* scan_all_devices: sorted(glob.glob("/dev/video*"))
    scan_i,            \* scan_all_devices: position of "for video_dev"
    klog,              \* the kernel log buffer, as the set of its lines
    success,           \* detect_i2c_for_device: result of trigger_sensor
    detected,          \* detect_i2c_for_device: sensor -> buses or None
    scan_ops,          \* what was run for the current video device, in order
    list_mode,         \* main: args.list_formats or args.list_formats_ext
    dev_i,             \* main: position of "for dev in devices_to_probe"
    status,            \* per device of the batch: what became of its probe
    regs,              \* the device: value last written to each cursor register
    lastOp,            \* transport: the most recent register operation
    settle,            \* transport: value reset / settle delay seen since the
                       \*   last write to CTRL_INDEX_REG
    written,           \* transport: indices written to each index register
                       \*   since the enumeration pass using it began
    device_id, device_version, sensor_id, isp_fw_version,    \* main 291-294
    version_length, sw_i, version, sw_read,  \* get_software_fw_version
    pix_index, pix_type, bayer_order,        \* main 302-311
    fmt_count,         \* PixelFormat lines logged for this device
    pix_order, pix_name, fourcc,             \* list_formats 175-188
    index, width, height, ctrl_index, resolutions,  \* enum_resolutions
    fr_ids,            \* enum_resolutions: the values of ctrl_id (line 156)
                       \*   since line 153
    res_i,             \* main: position of "for res in resolutions"
    main_ctrl_index, ctrl_id, max_val, min_val,     \* main 336-347
    ctrl_count,        \* control lines logged for the current resolution
    out                \* what the current step printed

argVars   == << args_bus, args_device, mapping_exists, mapping >>
scanVars  == << video_devs, scan_i, klog, success, detected, scan_ops >>
batchVars == << argVars, scanVars, devices_to_probe, list_mode >>
identVars == << device_id, device_version, sensor_id, isp_fw_version >>
swVars    == << version_length, sw_i, version, sw_read >>
pixVars   == << pix_index, pix_type, bayer_order, fmt_count >>
listVars  == << pix_order, pix_name, fourcc >>
resVars   == << index, width, height, ctrl_index, resolutions, fr_ids >>
ctlVars   == << res_i, main_ctrl_index, ctrl_id, max_val, min_val, ctrl_count >>
busVars   == << regs, lastOp, settle, written >>

vars == << pc, batchVars, dev_i, status, busVars, identVars, swVars, pixVars,
           listVars, resVars, ctlVars, out >>

\* the cursor registers whose last written value the model keeps
CursorRegs == { PIXFORMAT_INDEX_REG, RESOLUTION_INDEX_REG }

\* the cursor registers of the enumerations
IndexRegs ==
    { SOFT_VERSION_INDEX_REG, PIXFORMAT_INDEX_REG, RESOLUTION_INDEX_REG,
      CTRL_INDEX_REG }

NoOut == [kind |-> "none"]
NoOp  == [op |-> "none", reg |-> 0, val |-> 0]

\* a freshly opened bus session: nothing written, nothing read
FreshRegs    == [r \in CursorRegs |-> None]
FreshWritten == [r \in IndexRegs |-> << >>]

\* locals before their first assignment
InitIdent ==
    /\ device_id = None /\ device_version = None /\ sensor_id = None
    /\ isp_fw_version = None

InitPix ==
    /\ pix_index = 0 /\ pix_type = None /\ bayer_order = None /\ fmt_count = 0

InitList ==
    /\ pix_order = None /\ pix_name = "" /\ fourcc = ""

InitOther ==
    /\ version_length = None /\ sw_i = 0 /\ version = << >> /\ sw_read = << >>
    /\ index = 0 /\ width = None /\ height = None /\ ctrl_index = 0
    /\ resolutions = << >> /\ fr_ids = << >>
    /\ res_i = 0 /\ main_ctrl_index = 0 /\ ctrl_id = None
    /\ max_val = None /\ min_val = None /\ ctrl_count = 0

InitLocals == InitIdent /\ InitPix /\ InitList /\ InitOther

\* a bus session on which nothing was written or read yet
InitBus ==
    /\ regs = FreshRegs /\ lastOp = NoOp /\ settle = "none"
    /\ written = FreshWritten

\* the locals of one device's probe are dead once the probe is over: the next
\* iteration of "for dev" assigns each before it reads it
ResetLocals ==
    /\ device_id' = None /\ device_version' = None /\ sensor_id' = None
    /\ isp_fw_version' = None
    /\ version_length' = None /\ sw_i' = 0 /\ version' = << >> /\ sw_read' = << >>
    /\ pix_index' = 0 /\ pix_type' = None /\ bayer_order' = None
    /\ fmt_count' = 0
    /\ pix_order' = None /\ pix_name' = "" /\ fourcc' = ""
    /\ index' = 0 /\ width' = None /\ height' = None /\ ctrl_index' = 0
    /\ resolutions' = << >> /\ fr_ids' = << >>
    /\ res_i' = 0 /\ main_ctrl_index' = 0 /\ ctrl_id' = None
    /\ max_val' = None /\ min_val' = None /\ ctrl_count' = 0

\* the name of the i-th video device
VideoName(i) == "video" \o FmtDec(i)

\* a mapping entry {"bus": b, "addr": "0x0c", "sensor": s}, as json.load
\* returns it; an entry is None (null) or << such a record >>
Info(b) == << [bus |-> b, addr |-> "0x0c", sensor |-> "arducam-pivariety"] >>

\* ardu_i2c_detect.py, lines 19-22
SENSOR_NAMES == << "arducam-pivariety" >>

\* the known sensor names as a set
Sensors == { SENSOR_NAMES[k] : k \in 1..Len(SENSOR_NAMES) }

\* {sensor: None for sensor in sensor_names}; None and the empty list are
\* both false and both kept as the empty sequence
NoDetection == [sn \in Sensors |-> None]

\* ardu_i2c_detect.py is not running: the mapping file was written earlier
ScanOver ==
    /\ video_devs = << >> /\ scan_i = 0 /\ klog = {} /\ success = FALSE
    /\ detected = NoDetection /\ scan_ops = << >>

\* main 263-276 leaves a batch of devices; device i sits on bus i
Batches ==
    { [i \in 1..n |-> [bus |-> i, name |-> VideoName(i - 1)]] :
        n \in 1..MaxDevs }

\* the mapping file that makes lines 274-276 select the batch b
MappingOf(b) ==
    [i \in 1..Len(b) |-> [name |-> b[i].name, info |-> Info(b[i].bus)]]

\* lines 243-276 are over: neither -b nor -d was given and every entry of
\* the mapping file went into the batch
Selected ==
    /\ args_bus = None /\ args_device = None
    /\ mapping_exists = TRUE
    /\ mapping = MappingOf(devices_to_probe)

Init ==
    /\ pc = "for_dev"
    /\ devices_to_probe \in Batches
    /\ Selected
    /\ ScanOver
    /\ list_mode \in BOOLEAN
    /\ dev_i = 0
    /\ status = [i \in 1..Len(devices_to_probe) |-> "pending"]
    /\ InitBus
    /\ InitLocals
    /\ out = NoOut

(***************************************************************************)
(* Transport: PivarietyCamera.readReg / writeReg, lines 126-130, and       *)
(* wait_for_free, lines 132-133.                                           *)
(***************************************************************************)
\* camera.writeReg(register, value) went through
WriteReg(register, value) ==
    /\ regs' = IF register \in CursorRegs
               THEN [regs EXCEPT ![register] = value]
               ELSE regs
    /\ lastOp' = [op |-> "write", reg |-> register, val |-> value]
    /\ settle' = IF register = CTRL_INDEX_REG THEN "none"
                 ELSE IF register = CTRL_VALUE_REG /\ value = 0 THEN "reset"
                 ELSE settle

\* camera.readReg(register) went through
ReadReg(register) ==
    /\ lastOp' = [op |-> "read", reg |-> register, val |-> 0]
    /\ UNCHANGED << regs, settle >>

\* wait_for_free(): time.sleep(0.05)
wait_for_free ==
    /\ settle' = IF settle = "reset" THEN "settled" ELSE settle
    /\ UNCHANGED << regs, lastOp >>

\* an enumeration pass over index register r begins (index = 0)
BeginPass(w, r) == [w EXCEPT ![r] = << >>]

\* the loop of the pass over index register r wrote index i
Logged(w, r, i) == [w EXCEPT ![r] = Append(@, i)]

\* mutant of Succ: the index moves on by two
SuccSkip(i) == i + 2

\* index += 1 (lines 162, 165, 349, 351)
Succ(i) == i + 1

\* the underlying read_16_32 / write_16_32 fails on a bus-level failure
TransportError == TRUE

\* No handler encloses a register operation of main: the exception leaves
\* main and ends the process, whatever devices are left in the batch.
Raise ==
    /\ TransportError
    /\ pc' = "crashed"
    /\ status' = [status EXCEPT ![dev_i] = "aborted"]
    /\ regs' = FreshRegs /\ lastOp' = NoOp /\ settle' = "none"
    /\ written' = FreshWritten
    /\ ResetLocals
    /\ out' = [kind |-> "traceback"]
    /\ UNCHANGED << batchVars, dev_i >>

(***************************************************************************)
(* main, lines 279-300: the batch loop, the bus open, the identity block.  *)
(***************************************************************************)
\* mutant of ForDev: the loop does not move past its first device
ForDevAgain ==
    /\ pc = "for_dev"
    /\ IF dev_i < Len(devices_to_probe)
       THEN dev_i' = (IF dev_i = 0 THEN 1 ELSE dev_i) /\ pc' = "open"
       ELSE dev_i' = dev_i /\ pc' = "exit"
    /\ out' = NoOut
    /\ UNCHANGED << batchVars, status, busVars, identVars, swVars, pixVars,
                    listVars, resVars, ctlVars >>

\* line 279: for dev in devices_to_probe
ForDev ==
    /\ pc = "for_dev"
    /\ IF dev_i < Len(devices_to_probe)
       THEN dev_i' = dev_i + 1 /\ pc' = "open"
       ELSE dev_i' = dev_i /\ pc' = "exit"
    /\ out' = NoOut
    /\ UNCHANGED << batchVars, status, busVars, identVars, swVars, pixVars,
                    listVars, resVars, ctlVars >>

\* lines 280-288: PivarietyCamera(dev["bus"]); a failed open is logged and
\* the loop continues with the next device
Open ==
    /\ pc = "open"
    /\ \/ /\ status' = [status EXCEPT ![dev_i] = "probing"]
          /\ pc' = IF list_mode THEN "lf_write_pix" ELSE "read_device_id"
          /\ regs' = FreshRegs /\ lastOp' = NoOp /\ settle' = "none"
          /\ written' = FreshWritten
          /\ out' = NoOut
       \/ /\ status' = [status EXCEPT ![dev_i] = "open_failed"]
          /\ pc' = "for_dev"
          /\ out' = [kind |-> "error"]
          /\ UNCHANGED busVars
    /\ UNCHANGED << batchVars, dev_i, identVars, swVars, pixVars, listVars,
                    resVars, ctlVars >>

\* line 291
ReadDeviceId ==
    /\ pc = "read_device_id"
    /\ \/ /\ ReadReg(DEVICE_ID_REG)
          /\ device_id' \in IdentityValues
          /\ pc' = "read_device_version"
          /\ out' = NoOut
          /\ UNCHANGED << batchVars, dev_i, status, written, device_version, sensor_id,
                          isp_fw_version, swVars, pixVars, listVars, resVars,
                          ctlVars >>
       \/ Raise

\* line 292
ReadDeviceVersion ==
    /\ pc = "read_device_version"
    /\ \/ /\ ReadReg(DEVICE_VERSION_REG)
          /\ device_version' \in IdentityValues
          /\ pc' = "read_sensor_id"
          /\ out' = NoOut
          /\ UNCHANGED << batchVars, dev_i, status, written, device_id, sensor_id,
                          isp_fw_version, swVars, pixVars, listVars, resVars,
                          ctlVars >>
       \/ Raise

\* line 293
ReadSensorId ==
    /\ pc = "read_sensor_id"
    /\ \/ /\ ReadReg(FIRMWARE_SENSOR_ID_REG)
          /\ sensor_id' \in IdentityValues
          /\ pc' = "read_unique_id"
          /\ out' = NoOut
          /\ UNCHANGED << batchVars, dev_i, status, written, device_id, device_version,
                          isp_fw_version, swVars, pixVars, listVars, resVars,
                          ctlVars >>
       \/ Raise

\* line 294
ReadUniqueId ==
    /\ pc = "read_unique_id"
    /\ \/ /\ ReadReg(UNIQUE_ID_REG)
          /\ isp_fw_version' \in FwValues
          /\ pc' = "log_identity"
          /\ out' = NoOut
          /\ UNCHANGED << batchVars, dev_i, status, written, device_id, device_version,
                          sensor_id, swVars, pixVars, listVars, resVars,
                          ctlVars >>
       \/ Raise

\* lines 296-299: the identity lines, the ISP firmware version among them;
\* the four values are not read again.  Line 300 then evaluates
\* get_software_fw_version(camera).
LogIdentity ==
    /\ pc = "log_identity"
    /\ out' = [kind |-> "identity", raw |-> isp_fw_version,
               text |-> parse_isp_fw_version(isp_fw_version)]
    /\ device_id' = None /\ device_version' = None /\ sensor_id' = None
    /\ isp_fw_version' = None
    /\ pc' = "sw_read_len"
    /\ UNCHANGED << batchVars, dev_i, status, busVars, swVars, pixVars,
                    listVars, resVars, ctlVars >>

(***************************************************************************)
(* get_software_fw_version, lines 209-221.                                 *)
(***************************************************************************)
\* chr(ch): a character is kept as its code point, a string as the sequence
\* of its characters
chr(ch) == WordInt(ch)

\* the string "None" of line 212
NoneText == << 78, 111, 110, 101 >>

\* line 211: the length register holds no usable length
NoVersion(len) == len = NO_DATA_AVAILABLE \/ WordGt(len, 255)

\* mutant of AddChar: the range test of line 218 is missing
AddCharKeep(v, ch) == Append(v, chr(ch))

\* lines 218-220: an invalid code is skipped, any other is appended
AddChar(v, ch) == IF WordGt(ch, 255) THEN v ELSE Append(v, chr(ch))

\* lines 210-215: the length read.  "None" is returned at once for an
\* unusable length; a usable one starts range(version_length).
SwReadLen ==
    /\ pc = "sw_read_len"
    /\ \/ /\ ReadReg(SOFT_VERSION_LEN_REG)
          /\ \E len \in LengthValues :
                /\ version_length' = len
                /\ IF NoVersion(len)
                   THEN version' = NoneText /\ pc' = "sw_log"
                   ELSE /\ version' = << >>
                        /\ pc' = IF 0 < WordInt(len) THEN "sw_write"
                                 ELSE "sw_log"
          /\ sw_i' = 0 /\ sw_read' = << >>
          /\ out' = NoOut
          /\ UNCHANGED << batchVars, dev_i, status, written, identVars, pixVars,
                          listVars, resVars, ctlVars >>
       \/ Raise

\* line 216
SwWrite ==
    /\ pc = "sw_write"
    /\ \/ /\ WriteReg(SOFT_VERSION_INDEX_REG, sw_i)
          /\ written' = Logged(written, SOFT_VERSION_INDEX_REG, sw_i)
          /\ pc' = "sw_read"
          /\ out' = NoOut
          /\ UNCHANGED << batchVars, dev_i, status, identVars, swVars, pixVars,
                          listVars, resVars, ctlVars >>
       \/ Raise

\* lines 217-220 and the step of range(version_length)
SwRead ==
    /\ pc = "sw_read"
    /\ \/ /\ ReadReg(SOFT_VERSION_REG)
          /\ \E ch \in CharValues :
                /\ version' = AddChar(version, ch)
                /\ sw_read' = Append(sw_read, ch)
          /\ sw_i' = sw_i + 1
          /\ pc' = IF sw_i + 1 < WordInt(version_length) THEN "sw_write"
                   ELSE "sw_log"
          /\ out' = NoOut
          /\ UNCHANGED << batchVars, dev_i, status, written, identVars,
                          version_length,
                          pixVars, listVars, resVars, ctlVars >>
       \/ Raise

\* line 221 and line 300: the version is returned and logged; line 302
SwLog ==
    /\ pc = "sw_log"
    /\ out' = [kind |-> "software", text |-> version,
               declared |-> version_length, codes |-> sw_read,
               writes |-> written[SOFT_VERSION_INDEX_REG]]
    /\ version_length' = None /\ sw_i' = 0 /\ version' = << >> /\ sw_read' = << >>
    /\ pix_index' = 0 /\ fmt_count' = 0
    /\ written' = BeginPass(BeginPass(written, SOFT_VERSION_INDEX_REG),
                            PIXFORMAT_INDEX_REG)
    /\ pc' = "pix_write"
    /\ UNCHANGED << batchVars, dev_i, status, regs, lastOp, settle, identVars,
                    pix_type, bayer_order, listVars, resVars, ctlVars >>

(***************************************************************************)
(* main, lines 302-327 and 351-353: the pixel-format loop.                 *)
(***************************************************************************)
\* mutant of PixWrite: the register is written 0 whatever the format
PixWriteStale ==
    /\ pc = "pix_write"
    /\ \/ /\ WriteReg(PIXFORMAT_INDEX_REG, 0)
          /\ written' = Logged(written, PIXFORMAT_INDEX_REG, pix_index)
          /\ pc' = "pix_read"
          /\ out' = NoOut
          /\ UNCHANGED << batchVars, dev_i, status, identVars, swVars, pixVars,
                          listVars, resVars, ctlVars >>
       \/ Raise

\* line 304
PixWrite ==
    /\ pc = "pix_write"
    /\ \/ /\ WriteReg(PIXFORMAT_INDEX_REG, pix_index)
          /\ written' = Logged(written, PIXFORMAT_INDEX_REG, pix_index)
          /\ pc' = "pix_read"
          /\ out' = NoOut
          /\ UNCHANGED << batchVars, dev_i, status, identVars, swVars, pixVars,
                          listVars, resVars, ctlVars >>
       \/ Raise

\* lines 305-307: the presence read; the sentinel leaves the loop for line
\* 353.  A device exposes at most `limit` pixel formats.
PixRead(limit) ==
    /\ pc = "pix_read"
    /\ \/ /\ ReadReg(PIXFORMAT_INDEX_REG)
          /\ \E val \in { NO_DATA_AVAILABLE } \cup PresenceValues(pix_index) :
                /\ val # NO_DATA_AVAILABLE => pix_index < limit
                /\ pc' = IF val = NO_DATA_AVAILABLE THEN "final_write"
                         ELSE "pix_read_type"
          /\ out' = NoOut
          /\ UNCHANGED << batchVars, dev_i, status, written, identVars, swVars,
                          pixVars, listVars, resVars, ctlVars >>
       \/ Raise

\* line 309
PixReadType ==
    /\ pc = "pix_read_type"
    /\ \/ /\ ReadReg(PIXFORMAT_TYPE_REG)
          /\ pix_type' \in PixTypeValues
          /\ pc' = "pix_read_order"
          /\ out' = NoOut
          /\ UNCHANGED << batchVars, dev_i, status, written, identVars, swVars,
                          pix_index, bayer_order, fmt_count, listVars, resVars,
                          ctlVars >>
       \/ Raise

\* line 310
PixReadOrder ==
    /\ pc = "pix_read_order"
    /\ \/ /\ ReadReg(PIXFORMAT_ORDER_REG)
          /\ bayer_order' \in PixOrderValues
          /\ pc' = "pix_read_lanes"
          /\ out' = NoOut
          /\ UNCHANGED << batchVars, dev_i, status, written, identVars, swVars,
                          pix_index, pix_type, fmt_count, listVars, resVars,
                          ctlVars >>
       \/ Raise

\* lines 311-327: the lane read, the PixelFormat line, and the call of
\* enum_resolutions (lines 140-141).  pix_type and bayer_order are not read
\* again before line 309 assigns them anew.
PixReadLanes ==
    /\ pc = "pix_read_lanes"
    /\ \/ /\ ReadReg(MIPI_LANES_REG)
          /\ \E lanes \in LaneValues :
                out' = [kind |-> "fmt", idx |-> pix_index,
                        raw_type |-> pix_type, raw_order |-> bayer_order,
                        dtype |-> Get(pix_type_map, pix_type, "Unknown"),
                        order |-> OrderOf(pix_type, bayer_order),
                        lanes |-> lanes]
          /\ fmt_count' = fmt_count + 1
          /\ pix_type' = None /\ bayer_order' = None
          /\ index' = 0 /\ resolutions' = << >>
          /\ written' = BeginPass(written, RESOLUTION_INDEX_REG)
          /\ pc' = "res_write"
          /\ UNCHANGED << batchVars, dev_i, status, identVars, swVars,
                          pix_index, listVars, width, height, ctrl_index,
                          fr_ids, ctlVars >>
       \/ Raise

\* mutant of FinalWrite: the cursor is left where the loop ended
FinalWriteIndex ==
    /\ pc = "final_write"
    /\ \/ /\ WriteReg(PIXFORMAT_INDEX_REG, pix_index)
          /\ status' = [status EXCEPT ![dev_i] = "done"]
          /\ ResetLocals
          /\ written' = FreshWritten
          /\ pc' = "for_dev"
          /\ out' = NoOut
          /\ UNCHANGED << batchVars, dev_i >>
       \/ Raise

\* line 353: the cursor of the pixel formats is put back to 0; the probe of
\* this device is complete and its passes are over
FinalWrite ==
    /\ pc = "final_write"
    /\ \/ /\ WriteReg(PIXFORMAT_INDEX_REG, 0)
          /\ status' = [status EXCEPT ![dev_i] = "done"]
          /\ ResetLocals
          /\ written' = FreshWritten
          /\ pc' = "for_dev"
          /\ out' = NoOut
          /\ UNCHANGED << batchVars, dev_i >>
       \/ Raise

(***************************************************************************)
(* enum_resolutions, lines 139-166.                                        *)
(***************************************************************************)
\* mutant of AppendResolution: the entry carries a 1-based index
AppendResolutionOneBased(list, i, w, h, fps) ==
    Append(list, [index |-> i + 1, width |-> w, height |-> h, max_fps |-> fps])

\* line 164
AppendResolution(list, i, w, h, fps) ==
    Append(list, [index |-> i, width |-> w, height |-> h, max_fps |-> fps])

\* line 143
ResWrite ==
    /\ pc = "res_write"
    /\ \/ /\ WriteReg(RESOLUTION_INDEX_REG, index)
          /\ written' = Logged(written, RESOLUTION_INDEX_REG, index)
          /\ pc' = "res_read"
          /\ out' = NoOut
          /\ UNCHANGED << batchVars, dev_i, status, identVars, swVars, pixVars,
                          listVars, resVars, ctlVars >>
       \/ Raise

\* lines 144-146: the presence read; the sentinel returns the list (line 166)
\* to list_formats, line 190, or to main, line 327.  A device exposes at
\* most `limit` resolutions.  ctrl_index is assigned at line 153 before it is
\* read again, and so is ctrl_id at line 156.
ResRead(limit) ==
    /\ pc = "res_read"
    /\ \/ /\ ReadReg(RESOLUTION_INDEX_REG)
          /\ \E val \in { NO_DATA_AVAILABLE } \cup PresenceValues(index) :
                /\ val # NO_DATA_AVAILABLE => index < limit
                /\ pc' = IF val # NO_DATA_AVAILABLE THEN "res_read_width"
                         ELSE IF list_mode THEN "lf_print" ELSE "res_for"
          /\ ctrl_index' = 0 /\ fr_ids' = << >>
          /\ out' = NoOut
          /\ UNCHANGED << batchVars, dev_i, status, written, identVars, swVars,
                          pixVars, listVars, index, width, height, resolutions,
                          ctlVars >>
       \/ Raise

\* line 147
ResReadWidth ==
    /\ pc = "res_read_width"
    /\ \/ /\ ReadReg(FORMAT_WIDTH_REG)
          /\ width' \in WidthValues
          /\ pc' = "res_read_height"
          /\ out' = NoOut
          /\ UNCHANGED << batchVars, dev_i, status, written, identVars, swVars,
                          pixVars, listVars, index, height, ctrl_index,
                          resolutions, fr_ids, ctlVars >>
       \/ Raise

\* line 148
ResReadHeight ==
    /\ pc = "res_read_height"
    /\ \/ /\ ReadReg(FORMAT_HEIGHT_REG)
          /\ height' \in HeightValues
          /\ pc' = "fr_write0"
          /\ out' = NoOut
          /\ UNCHANGED << batchVars, dev_i, status, written, identVars, swVars,
                          pixVars, listVars, index, width, ctrl_index,
                          resolutions, fr_ids, ctlVars >>
       \/ Raise

\* lines 151-153: the Framerate lookup begins with a write of 0 to the
\* control index; max_fps = None, ctrl_index = 0
FrWrite0 ==
    /\ pc = "fr_write0"
    /\ \/ /\ WriteReg(CTRL_INDEX_REG, 0)
          /\ written' = Logged(BeginPass(written, CTRL_INDEX_REG),
                               CTRL_INDEX_REG, 0)
          /\ ctrl_index' = 0 /\ fr_ids' = << >>
          /\ pc' = "fr_write"
          /\ out' = NoOut
          /\ UNCHANGED << batchVars, dev_i, status, identVars, swVars, pixVars,
                          listVars, index, width, height, resolutions,
                          ctlVars >>
       \/ Raise

\* line 155
FrWrite ==
    /\ pc = "fr_write"
    /\ \/ /\ WriteReg(CTRL_INDEX_REG, ctrl_index)
          /\ written' = Logged(written, CTRL_INDEX_REG, ctrl_index)
          /\ pc' = "fr_read"
          /\ out' = NoOut
          /\ UNCHANGED << batchVars, dev_i, status, identVars, swVars, pixVars,
                          listVars, resVars, ctlVars >>
       \/ Raise

\* mutant of IsFramerate: the id compared with is that of Exposure
IsExposure(id) == id = << 152, 2321 >>

\* line 159
IsFramerate(id) == id = FRAMERATE_ID

\* lines 156-165: the control id read.  The sentinel ends the lookup with
\* max_fps = None and the resolution is appended (164-165); Framerate goes on
\* to line 160; any other id moves to the next control (162).  A device
\* exposes at most `limit` controls.
FrReadId(limit) ==
    /\ pc = "fr_read"
    /\ \/ /\ ReadReg(CTRL_ID_REG)
          /\ \E id \in { NO_DATA_AVAILABLE } \cup CtrlIdValues :
                /\ id # NO_DATA_AVAILABLE => ctrl_index < limit
                /\ fr_ids' = Append(fr_ids, id)
                /\ IF id = NO_DATA_AVAILABLE
                   THEN /\ resolutions' =
                              AppendResolution(resolutions, index, width,
                                               height, None)
                        /\ index' = Succ(index)
                        /\ width' = None /\ height' = None
                        /\ ctrl_index' = ctrl_index
                        /\ pc' = "res_write"
                   ELSE IF IsFramerate(id)
                   THEN /\ pc' = "fr_read_max"
                        /\ UNCHANGED << index, width, height, ctrl_index,
                                        resolutions >>
                   ELSE /\ ctrl_index' = Succ(ctrl_index)
                        /\ pc' = "fr_write"
                        /\ UNCHANGED << index, width, height, resolutions >>
          /\ out' = NoOut
          /\ UNCHANGED << batchVars, dev_i, status, written, identVars, swVars,
                          pixVars, listVars, ctlVars >>
       \/ Raise

\* lines 160-165: max_fps is read and the resolution is appended
FrReadMax ==
    /\ pc = "fr_read_max"
    /\ \/ /\ ReadReg(CTRL_MAX_REG)
          /\ \E max_fps \in CtrlBoundValues :
                resolutions' =
                    AppendResolution(resolutions, index, width, height, max_fps)
          /\ index' = Succ(index)
          /\ width' = None /\ height' = None
          /\ pc' = "res_write"
          /\ out' = NoOut
          /\ UNCHANGED << batchVars, dev_i, status, written, identVars, swVars,
                          pixVars, listVars, ctrl_index, fr_ids, ctlVars >>
       \/ Raise

(***************************************************************************)
(* main, lines 328-351: the resolutions of a format and their controls.    *)
(***************************************************************************)
\* lines 328-336: the next resolution is logged and its control loop begins
\* (ctrl_index = 0); after the last one, line 351 moves to the next format,
\* whose passes assign the list and the indices anew
ResFor ==
    /\ pc = "res_for"
    /\ IF res_i < Len(resolutions)
       THEN /\ res_i' = res_i + 1
            /\ out' = [kind |-> "res", idx |-> resolutions[res_i + 1].index,
                       width |-> resolutions[res_i + 1].width,
                       height |-> resolutions[res_i + 1].height]
            /\ main_ctrl_index' = 0 /\ ctrl_count' = 0
            /\ written' = BeginPass(written, CTRL_INDEX_REG)
            /\ pc' = "ctl_write"
            /\ UNCHANGED << pix_index, resolutions, index >>
       ELSE /\ res_i' = 0
            /\ out' = NoOut
            /\ pix_index' = Succ(pix_index)
            /\ resolutions' = << >> /\ index' = 0
            /\ main_ctrl_index' = 0 /\ ctrl_count' = 0
            /\ written' = BeginPass(BeginPass(written, CTRL_INDEX_REG),
                                    RESOLUTION_INDEX_REG)
            /\ pc' = "pix_write"
    /\ UNCHANGED << batchVars, dev_i, status, regs, lastOp, settle, identVars,
                    swVars, pix_type, bayer_order, fmt_count, listVars,
                    width, height, ctrl_index, fr_ids, ctrl_id, max_val,
                    min_val >>

\* line 338
CtlWrite ==
    /\ pc = "ctl_write"
    /\ \/ /\ WriteReg(CTRL_INDEX_REG, main_ctrl_index)
          /\ written' = Logged(written, CTRL_INDEX_REG, main_ctrl_index)
          /\ pc' = "ctl_read"
          /\ out' = NoOut
          /\ UNCHANGED << batchVars, dev_i, status, identVars, swVars, pixVars,
                          listVars, resVars, ctlVars >>
       \/ Raise

\* lines 339-341: the presence read of the control loop
CtlReadId(limit) ==
    /\ pc = "ctl_read"
    /\ \/ /\ ReadReg(CTRL_ID_REG)
          /\ \E id \in { NO_DATA_AVAILABLE } \cup CtrlIdValues :
                /\ id # NO_DATA_AVAILABLE => main_ctrl_index < limit
                /\ IF id = NO_DATA_AVAILABLE
                   THEN ctrl_id' = None /\ pc' = "res_for"
                   ELSE ctrl_id' = id /\ pc' = "ctl_reset"
          /\ out' = NoOut
          /\ UNCHANGED << batchVars, dev_i, status, written, identVars, swVars,
                          pixVars, listVars, resVars, res_i, main_ctrl_index,
                          max_val, min_val, ctrl_count >>
       \/ Raise

\* line 343
CtlReset ==
    /\ pc = "ctl_reset"
    /\ \/ /\ WriteReg(CTRL_VALUE_REG, 0)
          /\ pc' = "ctl_wait"
          /\ out' = NoOut
          /\ UNCHANGED << batchVars, dev_i, status, written, identVars, swVars,
                          pixVars, listVars, resVars, ctlVars >>
       \/ Raise

\* line 344
CtlWait ==
    /\ pc = "ctl_wait"
    /\ wait_for_free
    /\ pc' = "ctl_read_max"
    /\ out' = NoOut
    /\ UNCHANGED << batchVars, dev_i, status, written, identVars, swVars,
                    pixVars, listVars, resVars, ctlVars >>

\* line 345
CtlReadMax ==
    /\ pc = "ctl_read_max"
    /\ \/ /\ ReadReg(CTRL_MAX_REG)
          /\ max_val' \in CtrlBoundValues
          /\ pc' = "ctl_read_min"
          /\ out' = NoOut
          /\ UNCHANGED << batchVars, dev_i, status, written, identVars, swVars,
                          pixVars, listVars, resVars, res_i, main_ctrl_index,
                          ctrl_id, min_val, ctrl_count >>
       \/ Raise

\* line 346
CtlReadMin ==
    /\ pc = "ctl_read_min"
    /\ \/ /\ ReadReg(CTRL_MIN_REG)
          /\ min_val' \in CtrlBoundValues
          /\ pc' = "ctl_read_def"
          /\ out' = NoOut
          /\ UNCHANGED << batchVars, dev_i, status, written, identVars, swVars,
                          pixVars, listVars, resVars, res_i, main_ctrl_index,
                          ctrl_id, max_val, ctrl_count >>
       \/ Raise

\* lines 347-349: the default read, the control line, ctrl_index += 1.
\* ctrl_id, max_val and min_val are not read again before they are assigned.
CtlReadDef ==
    /\ pc = "ctl_read_def"
    /\ \/ /\ ReadReg(CTRL_DEF_REG)
          /\ \E def_val \in CtrlBoundValues :
                out' = [kind |-> "ctrl", idx |-> main_ctrl_index,
                        id |-> ctrl_id,
                        text |-> "0x" \o FmtWord06X(ctrl_id),
                        name |-> Get(ID_map, ctrl_id, "Unknown"),
                        max |-> max_val, min |-> min_val, def |-> def_val]
          /\ ctrl_count' = ctrl_count + 1
          /\ main_ctrl_index' = Succ(main_ctrl_index)
          /\ ctrl_id' = None /\ max_val' = None /\ min_val' = None
          /\ pc' = "ctl_write"
          /\ UNCHANGED << batchVars, dev_i, status, written, identVars, swVars,
                          pixVars, listVars, resVars, res_i >>
       \/ Raise

(***************************************************************************)
(* list_formats, lines 171-207, called at line 287.                        *)
(***************************************************************************)
\* line 174
LfWritePix ==
    /\ pc = "lf_write_pix"
    /\ \/ /\ WriteReg(PIXFORMAT_INDEX_REG, 0)
          /\ pc' = "lf_read_type"
          /\ out' = NoOut
          /\ UNCHANGED << batchVars, dev_i, status, written, identVars, swVars,
                          pixVars, listVars, resVars, ctlVars >>
       \/ Raise

\* line 175
LfReadType ==
    /\ pc = "lf_read_type"
    /\ \/ /\ ReadReg(PIXFORMAT_TYPE_REG)
          /\ pix_type' \in PixTypeValues
          /\ pc' = "lf_read_order"
          /\ out' = NoOut
          /\ UNCHANGED << batchVars, dev_i, status, written, identVars, swVars,
                          pix_index, bayer_order, fmt_count, listVars, resVars,
                          ctlVars >>
       \/ Raise

\* line 176
LfReadOrder ==
    /\ pc = "lf_read_order"
    /\ \/ /\ ReadReg(PIXFORMAT_ORDER_REG)
          /\ pix_order' \in PixOrderValues
          /\ pc' = "lf_decode"
          /\ out' = NoOut
          /\ UNCHANGED << batchVars, dev_i, status, written, identVars, swVars,
                          pixVars, pix_name, fourcc, resVars, ctlVars >>
       \/ Raise

\* lines 178-190: the name and the FOURCC are derived, then enum_resolutions
\* is called (lines 140-141)
LfDecode ==
    /\ pc = "lf_decode"
    /\ pix_name' = Get(pix_type_map, pix_type, "Unknown")
    /\ fourcc' = FourccOf(pix_type, pix_order)
    /\ index' = 0 /\ resolutions' = << >>
    /\ written' = BeginPass(written, RESOLUTION_INDEX_REG)
    /\ pc' = "res_write"
    /\ out' = NoOut
    /\ UNCHANGED << batchVars, dev_i, status, regs, lastOp, settle, identVars,
                    swVars, pixVars, pix_order, width, height, ctrl_index,
                    fr_ids, ctlVars >>

\* lines 192-207: the listing is printed, one entry per resolution; line 288
\* then continues with the next device, the passes of this one being over
LfPrint ==
    /\ pc = "lf_print"
    /\ out' = [kind |-> "listing", fourcc |-> fourcc, pix_name |-> pix_name,
               raw_type |-> pix_type, raw_order |-> pix_order,
               entries |-> resolutions]
    /\ status' = [status EXCEPT ![dev_i] = "done"]
    /\ ResetLocals
    /\ written' = FreshWritten
    /\ pc' = "for_dev"
    /\ UNCHANGED << batchVars, dev_i, regs, lastOp, settle >>

(***************************************************************************)
(* The program.                                                            *)
(***************************************************************************)
Next ==
    \/ ForDev \/ Open
    \/ ReadDeviceId \/ ReadDeviceVersion \/ ReadSensorId \/ ReadUniqueId
    \/ LogIdentity
    \/ SwReadLen \/ SwWrite \/ SwRead \/ SwLog
    \/ PixWrite \/ PixRead(MaxPix) \/ PixReadType \/ PixReadOrder
    \/ PixReadLanes \/ FinalWrite
    \/ ResWrite \/ ResRead(MaxRes) \/ ResReadWidth \/ ResReadHeight
    \/ FrWrite0 \/ FrWrite \/ FrReadId(MaxCtrl) \/ FrReadMax
    \/ ResFor
    \/ CtlWrite \/ CtlReadId(MaxCtrl) \/ CtlReset \/ CtlWait
    \/ CtlReadMax \/ CtlReadMin \/ CtlReadDef
    \/ LfWritePix \/ LfReadType \/ LfReadOrder \/ LfDecode \/ LfPrint

Spec == Init /\ [][Next]_vars

(***************************************************************************)
(* parse_isp_fw_version on its own: any packed value, then line 299.       *)
(***************************************************************************)
\* packed values: id high byte 0x00, 0x01, 0xAB, low byte 0x00, 0x02, 0xFF,
\* every year 0..127, months 0, 2, 12, 15 and days 0, 3, 31
FwInputs ==
    { << h * 256 + l, y * 512 + m * 32 + d >> :
        h \in {0, 1, 171}, l \in {0, 2, 255}, y \in 0..127,
        m \in {0, 2, 12, 15}, d \in {0, 3, 31} }

InitFw ==
    /\ pc = "log_identity"
    /\ devices_to_probe = [i \in 1..1 |-> [bus |-> i, name |-> VideoName(0)]]
    /\ Selected
    /\ ScanOver
    /\ list_mode = FALSE
    /\ dev_i = 1
    /\ status = [i \in 1..1 |-> "probing"]
    /\ InitBus
    /\ device_id \in IdentityValues /\ device_version \in IdentityValues
    /\ sensor_id \in IdentityValues
    /\ isp_fw_version \in FwInputs
    /\ InitPix /\ InitList /\ InitOther
    /\ out = NoOut

SpecFw == InitFw /\ [][LogIdentity]_vars

(***************************************************************************)
(* The FOURCC derivation on its own: any type and order code, then lines   *)
(* 178-188.                                                                *)
(***************************************************************************)
\* largest pixel type code and order code drawn
MaxTypeCode == 64
MaxOrderCode == 7

TypeCodes == { Word(n) : n \in 0..MaxTypeCode } \cup { NO_DATA_AVAILABLE }
OrderCodes == { Word(n) : n \in 0..MaxOrderCode } \cup { NO_DATA_AVAILABLE }

InitFourcc ==
    /\ pc = "lf_decode"
    /\ devices_to_probe = [i \in 1..1 |-> [bus |-> i, name |-> VideoName(0)]]
    /\ Selected
    /\ ScanOver
    /\ list_mode = TRUE
    /\ dev_i = 1
    /\ status = [i \in 1..1 |-> "probing"]
    /\ InitBus
    /\ InitIdent /\ InitOther
    /\ pix_index = 0 /\ bayer_order = None /\ fmt_count = 0
    /\ pix_type \in TypeCodes
    /\ pix_order \in OrderCodes
    /\ pix_name = "" /\ fourcc = ""
    /\ out = NoOut

SpecFourcc == InitFourcc /\ [][LfDecode]_vars

(***************************************************************************)
(* list-formats mode against a device with a long control list: the        *)
(* Framerate lookup may see up to CEILING + 1 controls.                    *)
(***************************************************************************)
InitHang ==
    /\ pc = "for_dev"
    /\ devices_to_probe = [i \in 1..1 |-> [bus |-> i, name |-> VideoName(0)]]
    /\ Selected
    /\ ScanOver
    /\ list_mode = TRUE
    /\ dev_i = 0
    /\ status = [i \in 1..1 |-> "pending"]
    /\ InitBus
    /\ InitLocals
    /\ out = NoOut

NextHang ==
    \/ ForDev \/ Open
    \/ LfWritePix \/ LfReadType \/ LfReadOrder \/ LfDecode
    \/ ResWrite \/ ResRead(MaxRes) \/ ResReadWidth \/ ResReadHeight
    \/ FrWrite0 \/ FrWrite \/ FrReadId(CEILING + 1) \/ FrReadMax
    \/ LfPrint

SpecHang == InitHang /\ [][NextHang]_vars

(***************************************************************************)
(* main, lines 243-276: the command line, the mapping file and the choice  *)
(* of the devices to probe, followed by the probes of lines 279-353.       *)
(***************************************************************************)
\* formats, resolutions and controls a device exposes when the choice of the
\* devices is what is looked at
MaxSelEntries == 1

\* os.path.basename of a path given as the sequence of its components
basename(path) == path[Len(path)]

\* dev_name in mapping
InMapping(dev_name) == \E i \in 1..Len(mapping) : mapping[i].name = dev_name

\* mapping[dev_name]
Lookup(dev_name) ==
    mapping[CHOOSE i \in 1..Len(mapping) : mapping[i].name = dev_name].info

\* mutant of Mapped: the loop of line 274 stops at the first true entry
RECURSIVE MappedFirst(_)
MappedFirst(m) ==
    IF m = << >> THEN << >>
    ELSE IF Head(m).info # None
    THEN << [bus |-> Head(m).info[1].bus, name |-> Head(m).name] >>
    ELSE MappedFirst(Tail(m))

\* lines 274-276: the entries of the mapping whose value is true, in the
\* order of the mapping
RECURSIVE Mapped(_)
Mapped(m) ==
    IF m = << >> THEN << >>
    ELSE IF Head(m).info # None
    THEN << [bus |-> Head(m).info[1].bus, name |-> Head(m).name] >>
             \o Mapped(Tail(m))
    ELSE Mapped(Tail(m))

\* what -b is given as: nothing, bus 0, a bus no mapping names
BusArgs == { None, << 0 >>, << 9 >> }

\* what -d is given as: nothing, /dev/video0, video1, /dev/video9
DeviceArgs ==
    { None, << "dev", "video0" >>, << "video1" >>, << "dev", "video9" >> }

\* the values of the i-th mapping entry: null or bus i; the second entry
\* may also name the bus of the first
InfosAt(i) ==
    { None, Info(i) } \cup (IF i = 2 THEN { Info(1) } ELSE {})

\* the mapping files: up to MaxDevs entries video0, video1, ...
Mappings ==
    UNION { { [i \in 1..n |-> [name |-> VideoName(i - 1), info |-> f[i]]] :
                f \in { g \in [1..n -> UNION { InfosAt(i) : i \in 1..n }] :
                          \A i \in 1..n : g[i] \in InfosAt(i) } } :
            n \in 0..MaxDevs }

\* the program starts: line 241 has parsed the command line
InitSel ==
    /\ pc = "check_args"
    /\ args_bus \in BusArgs
    /\ args_device \in DeviceArgs
    /\ mapping_exists \in BOOLEAN
    /\ mapping \in IF mapping_exists THEN Mappings ELSE { << >> }
    /\ ScanOver
    /\ list_mode \in BOOLEAN
    /\ devices_to_probe = << >>
    /\ dev_i = 0
    /\ status = << >>
    /\ InitBus
    /\ InitLocals
    /\ out = NoOut

\* lines 243-245: -b and -d exclude each other
CheckArgs ==
    /\ pc = "check_args"
    /\ IF args_bus # None /\ args_device # None
       THEN pc' = "exit_failure" /\ out' = [kind |-> "error"]
       ELSE pc' = "load_mapping" /\ out' = NoOut
    /\ UNCHANGED << batchVars, dev_i, status, busVars, identVars, swVars,
                    pixVars, listVars, resVars, ctlVars >>

\* mutant of LoadMapping: the mapping file is not asked for when -b is given
LoadMappingUnlessBus ==
    /\ pc = "load_mapping"
    /\ IF mapping_exists \/ args_bus # None
       THEN pc' = "select" /\ out' = NoOut
       ELSE pc' = "exit_failure" /\ out' = [kind |-> "error"]
    /\ UNCHANGED << batchVars, dev_i, status, busVars, identVars, swVars,
                    pixVars, listVars, resVars, ctlVars >>

\* lines 255-261: the mapping file is loaded, or the run ends
LoadMapping ==
    /\ pc = "load_mapping"
    /\ IF mapping_exists
       THEN pc' = "select" /\ out' = NoOut
       ELSE pc' = "exit_failure" /\ out' = [kind |-> "error"]
    /\ UNCHANGED << batchVars, dev_i, status, busVars, identVars, swVars,
                    pixVars, listVars, resVars, ctlVars >>

\* lines 264-276: the devices to probe
SelectDevices ==
    /\ pc = "select"
    /\ IF args_bus # None
       THEN /\ devices_to_probe' = << [bus |-> args_bus[1], name |-> "manual"] >>
            /\ pc' = "for_dev" /\ out' = NoOut
       ELSE IF args_device # None
       THEN LET dev_name == basename(args_device)
            IN  IF ~InMapping(dev_name) \/ Lookup(dev_name) = None
                THEN /\ devices_to_probe' = << >>
                     /\ pc' = "exit_failure" /\ out' = [kind |-> "error"]
                ELSE /\ devices_to_probe' =
                           << [bus |-> Lookup(dev_name)[1].bus,
                               name |-> dev_name] >>
                     /\ pc' = "for_dev" /\ out' = NoOut
       ELSE /\ devices_to_probe' = Mapped(mapping)
            /\ pc' = "for_dev" /\ out' = NoOut
    /\ status' = [i \in 1..Len(devices_to_probe') |-> "pending"]
    /\ UNCHANGED << argVars, scanVars, list_mode, dev_i, busVars, identVars,
                    swVars, pixVars, listVars, resVars, ctlVars >>

NextSel ==
    \/ CheckArgs \/ LoadMapping \/ SelectDevices
    \/ ForDev \/ Open
    \/ ReadDeviceId \/ ReadDeviceVersion \/ ReadSensorId \/ ReadUniqueId
    \/ LogIdentity
    \/ SwReadLen \/ SwWrite \/ SwRead \/ SwLog
    \/ PixWrite \/ PixRead(MaxSelEntries) \/ PixReadType \/ PixReadOrder
    \/ PixReadLanes \/ FinalWrite
    \/ ResWrite \/ ResRead(MaxSelEntries) \/ ResReadWidth \/ ResReadHeight
    \/ FrWrite0 \/ FrWrite \/ FrReadId(MaxSelEntries) \/ FrReadMax
    \/ ResFor
    \/ CtlWrite \/ CtlReadId(MaxSelEntries) \/ CtlReset \/ CtlWait
    \/ CtlReadMax \/ CtlReadMin \/ CtlReadDef
    \/ LfWritePix \/ LfReadType \/ LfReadOrder \/ LfDecode \/ LfPrint

SpecSel == InitSel /\ [][NextSel]_vars

(***************************************************************************)
(* ardu_i2c_detect.py: scan_all_devices, lines 91-108, with                *)
(* detect_i2c_for_device, lines 73-88, clear_dmesg, lines 30-36,           *)
(* trigger_sensor, lines 39-52, and parse_i2c_bus_from_dmesg, lines 55-70. *)
(* A line of the kernel log is kept as the sensor name it holds, the bus   *)
(* number after it, and whether the pattern of line 64 matches it.         *)
(***************************************************************************)
\* the names glob.glob("/dev/video*") may find, sorted
ScanNames == << "video-subdev0", "video0", "video1" >>

\* "subdev" in video_dev, on the paths of ScanNames
HasSubdev(video_dev) == basename(video_dev) = "video-subdev0"

\* the results of sorted(glob.glob("/dev/video*")): every sorted selection of
\* the names
RECURSIVE Selections(_)
Selections(names) ==
    IF names = << >> THEN { << >> }
    ELSE LET rest == Selections(Tail(names))
         IN  rest \cup { << << "dev", Head(names) >> >> \o r : r \in rest }

\* the lines a kernel log may hold: the known sensor on bus 1 and on bus 10,
\* the known sensor in a line the pattern does not match, another sensor
LineValues ==
    { [sensor |-> "arducam-pivariety", bus |-> 1, match |-> TRUE],
      [sensor |-> "arducam-pivariety", bus |-> 10, match |-> TRUE],
      [sensor |-> "arducam-pivariety", bus |-> 0, match |-> FALSE],
      [sensor |-> "imx219", bus |-> 6, match |-> TRUE] }

\* line 69: f"i2c-{m.group(1)}", kept as its two parts
BusName(n) == << "i2c", n >>

\* line 104: int(bus_name.split("-")[1])
BusNum(bus_name) == bus_name[2]

\* lines 63-69: the buses of the lines that hold sensor_name and match
BusesIn(log, sensor_name) ==
    { BusName(l.bus) : l \in { x \in log : x.sensor = sensor_name /\ x.match } }

\* line 70: list(buses), the elements of the set in some order
Orders(S) ==
    { f \in [1..Cardinality(S) -> S] :
        \A i, j \in 1..Cardinality(S) : i # j => f[i] # f[j] }

\* parse_i2c_bus_from_dmesg(sensor_name): the list of line 70, or [] when the
\* log cannot be read (lines 59-61)
ParseResults(log, sensor_name) == Orders(BusesIn(log, sensor_name)) \cup { << >> }

\* line 105
Entry(bus_num, sensor) ==
    << [bus |-> bus_num, addr |-> "0x0c", sensor |-> sensor] >>

\* lines 100-106: the entry of the first sensor with buses, None without one
RECURSIVE FirstEntry(_, _)
FirstEntry(names, det) ==
    IF names = << >> THEN None
    ELSE IF det[Head(names)] # << >>
    THEN Entry(BusNum(det[Head(names)][1]), Head(names))
    ELSE FirstEntry(Tail(names), det)

\* scan_all_devices is called; the kernel log holds anything
InitScan ==
    /\ pc = "scan_for"
    /\ video_devs \in Selections(ScanNames)
    /\ scan_i = 0
    /\ klog \in SUBSET LineValues
    /\ success = FALSE
    /\ detected = NoDetection
    /\ scan_ops = << >>
    /\ mapping = << >>
    /\ mapping_exists = FALSE
    /\ args_bus = None /\ args_device = None
    /\ list_mode = FALSE
    /\ devices_to_probe = << >>
    /\ dev_i = 0
    /\ status = << >>
    /\ InitBus
    /\ InitLocals
    /\ out = NoOut

\* what no step of the scan changes
ProbeVars ==
    << args_bus, args_device, mapping_exists, devices_to_probe, list_mode,
       dev_i, status, busVars, identVars, swVars, pixVars, listVars, resVars,
       ctlVars, out >>

\* lines 95-98 and 108: the next video device; a subdev path is skipped
ScanFor ==
    /\ pc = "scan_for"
    /\ IF scan_i < Len(video_devs)
       THEN /\ scan_i' = scan_i + 1
            /\ IF HasSubdev(video_devs[scan_i + 1])
               THEN pc' = "scan_for" /\ scan_ops' = scan_ops
               ELSE pc' = "scan_clear" /\ scan_ops' = << >>
       ELSE /\ scan_i' = scan_i
            /\ pc' = "scan_done" /\ scan_ops' = scan_ops
    /\ UNCHANGED << video_devs, klog, success, detected, mapping, ProbeVars >>

\* line 75, clear_dmesg: "dmesg -C" empties the log; a failure is printed
\* and the log is left as it is
ClearDmesg ==
    /\ pc = "scan_clear"
    /\ klog' \in { {}, klog }
    /\ scan_ops' = Append(scan_ops, "clear")
    /\ pc' = "scan_trigger"
    /\ UNCHANGED << video_devs, scan_i, success, detected, mapping, ProbeVars >>

\* mutant of TriggerSensor: the log is parsed whatever the pipeline did
TriggerSensorParseAnyway ==
    /\ pc = "scan_trigger"
    /\ \E new \in SUBSET LineValues : klog' = klog \cup new
    /\ success' \in BOOLEAN
    /\ detected' = detected
    /\ pc' = "scan_parse"
    /\ scan_ops' = Append(scan_ops, "trigger")
    /\ UNCHANGED << video_devs, scan_i, mapping, ProbeVars >>

\* lines 76-79, trigger_sensor: the pipeline runs and the kernel logs what
\* the drivers do meanwhile; a failed pipeline skips the parsing
TriggerSensor ==
    /\ pc = "scan_trigger"
    /\ \E new \in SUBSET LineValues : klog' = klog \cup new
    /\ \/ success' = TRUE /\ detected' = detected /\ pc' = "scan_parse"
       \/ success' = FALSE /\ detected' = NoDetection /\ pc' = "scan_entry"
    /\ scan_ops' = Append(scan_ops, "trigger")
    /\ UNCHANGED << video_devs, scan_i, mapping, ProbeVars >>

\* lines 81-88: the log is parsed once for every known sensor
ParseDmesg ==
    /\ pc = "scan_parse"
    /\ detected' \in { f \in [Sensors -> UNION { ParseResults(klog, sn) :
                                                     sn \in Sensors }] :
                          \A sn \in Sensors : f[sn] \in ParseResults(klog, sn) }
    /\ scan_ops' = Append(scan_ops, "parse")
    /\ pc' = "scan_entry"
    /\ UNCHANGED << video_devs, scan_i, klog, success, mapping, ProbeVars >>

\* lines 100-107: the entry of the device goes into the mapping
MakeEntry ==
    /\ pc = "scan_entry"
    /\ mapping' = Append(mapping,
                         [name |-> basename(video_devs[scan_i]),
                          info |-> FirstEntry(SENSOR_NAMES, detected)])
    /\ pc' = "scan_for"
    /\ UNCHANGED << video_devs, scan_i, klog, success, detected, scan_ops,
                    ProbeVars >>

NextScan == ScanFor \/ ClearDmesg \/ TriggerSensor \/ ParseDmesg \/ MakeEntry

SpecScan == InitScan /\ [][NextScan]_vars
(***************************************************************************)
(* Properties.                                                             *)
(***************************************************************************)
\* positions inside enum_resolutions
ResPcs ==
    { "res_write", "res_read", "res_read_width", "res_read_height",
      "fr_write0", "fr_write", "fr_read", "fr_read_max" }

\* positions inside the resolution and control loops of main
CtlPcs ==
    { "res_for", "ctl_write", "ctl_read", "ctl_reset", "ctl_wait",
      "ctl_read_max", "ctl_read_min", "ctl_read_def" }

\* the sequence 0, 1, ..., k
UpTo(k) == [j \in 1..(k + 1) |-> j - 1]

\* the last register operation was a read of register r
JustRead(r) == lastOp.op = "read" /\ lastOp.reg = r

\* the last register operation was the write of v to register r
JustWrote(r, v) == lastOp = [op |-> "write", reg |-> r, val |-> v]

\* C1: an enumeration that reads the sentinel at index k has, when it ends,
\* yielded exactly k entries, entry j carrying index j - 1, has written the
\* indices 0..k once each in ascending order and nothing above k, and its
\* last register operation is that presence read.  Stated for
\* enum_resolutions (k = index), for the pixel-format loop of the full probe
\* (k = pix_index) and for its control loop (k = main_ctrl_index).
C1_SentinelEndsEnumeration ==
    /\ (pc \in {"res_for", "lf_print"}) =>
          /\ Len(resolutions) = index
          /\ \A j \in 1..Len(resolutions) : resolutions[j].index = j - 1
          /\ written[RESOLUTION_INDEX_REG] = UpTo(index)
    /\ (pc = "lf_print" \/ (pc = "res_for" /\ res_i = 0)) =>
          JustRead(RESOLUTION_INDEX_REG)
    /\ (pc = "final_write") =>
          /\ fmt_count = pix_index
          /\ written[PIXFORMAT_INDEX_REG] = UpTo(pix_index)
          /\ JustRead(PIXFORMAT_INDEX_REG)
    /\ (pc = "res_for" /\ res_i > 0) =>
          /\ ctrl_count = main_ctrl_index
          /\ written[CTRL_INDEX_REG] = UpTo(main_ctrl_index)
          /\ JustRead(CTRL_ID_REG)
    /\ (out.kind = "fmt") => out.idx = fmt_count - 1
    /\ (out.kind = "ctrl") => out.idx = ctrl_count - 1

\* C1 witness: in the second format, the control loop of the second of two
\* resolutions has just read the sentinel at index 2
C1_Witness ==
    /\ pc = "res_for" /\ res_i = 2 /\ Len(resolutions) = 2
    /\ main_ctrl_index = 2 /\ ctrl_count = 2 /\ pix_index = 1

\* C2: no enumeration loop starts an iteration beyond the ceiling: at every
\* presence read the loop's index is below CEILING
C2_LoopsStopAtCeiling ==
    /\ pc = "pix_read" => pix_index < CEILING
    /\ pc = "res_read" => index < CEILING
    /\ pc = "fr_read" => ctrl_index < CEILING
    /\ pc = "ctl_read" => main_ctrl_index < CEILING

\* C3: whenever a control's max, min or default register has just been read,
\* the current-value register was reset to 0 and the settle delay observed
\* since the last write to the control-index register
C3_ResetBeforeBoundRead ==
    (/\ lastOp.op = "read"
     /\ lastOp.reg \in { CTRL_MAX_REG, CTRL_MIN_REG, CTRL_DEF_REG })
        => settle = "settled"

\* C4: when the run is over, no device of the batch was left unprobed because
\* of another device's failure, and every probe that was not the failing one
\* is complete
C4_FailureIsolated ==
    (pc \in {"exit", "crashed"}) =>
        \A i \in 1..Len(status) : status[i] \in {"done", "open_failed", "aborted"}

\* C5: while the resolutions and controls of format pix_index are enumerated
\* in the full probe, the value last written to the pixel-format index
\* register is pix_index, and that format has been reported; in list-formats
\* mode the resolutions are enumerated under a written 0
C5_FormatIndexHeld ==
    /\ (~list_mode /\ pc \in ResPcs \cup CtlPcs) =>
          /\ regs[PIXFORMAT_INDEX_REG] = pix_index
          /\ fmt_count = pix_index + 1
    /\ (list_mode /\ pc \in ResPcs \cup {"lf_decode", "lf_print"}) =>
          regs[PIXFORMAT_INDEX_REG] = 0

\* C5 witness: a control of a resolution of the second format is being read
C5_Witness ==
    /\ ~list_mode /\ pc = "ctl_read_def" /\ pix_index = 1
    /\ regs[PIXFORMAT_INDEX_REG] = 1

\* what the claim C6 takes the text of a packed value to be: the year field
\* is the decimal number 2000 + year
C6_Text(v) ==
    LET idHigh == (v[1] \div 256) % 256
        idLow  == v[1] % 256
        year   == v[2] \div 512
        month  == (v[2] \div 32) % 16
        day    == v[2] % 32
    IN  "v" \o FmtHex(idHigh) \o "." \o FmtHex02(idLow) \o " "
            \o FmtDec(2000 + year) \o "/" \o FmtDec02(month)
            \o "/" \o FmtDec02(day)

\* C6: the logged ISP firmware text of every packed value v is
\* v{idHigh:hex}.{idLow:02hex} {2000+year}/{month:02d}/{day:02d}
C6_VersionText ==
    (out.kind = "identity") => out.text = C6_Text(out.raw)

\* the valid codes of a sequence of character codes, as characters, in order
RECURSIVE ValidChars(_)
ValidChars(codes) ==
    IF codes = << >> THEN << >>
    ELSE IF WordGt(Head(codes), 255) THEN ValidChars(Tail(codes))
    ELSE << WordInt(Head(codes)) >> \o ValidChars(Tail(codes))

\* number of codes above 255
Invalid(codes) == Cardinality({ j \in 1..Len(codes) : WordGt(codes[j], 255) })

\* C7: get_software_fw_version returns "None" without any index write when
\* the length is the sentinel or above 255; otherwise it writes 0..n-1 once
\* each in ascending order, reads the character register once after each
\* write, and returns the codes <= 255 in index order, n minus the number of
\* invalid codes long
C7_SoftwareVersion ==
    /\ (out.kind = "software") =>
          IF out.declared = NO_DATA_AVAILABLE \/ WordGt(out.declared, 255)
          THEN /\ out.text = NoneText
               /\ out.writes = << >> /\ out.codes = << >>
          ELSE /\ out.writes = [j \in 1..WordInt(out.declared) |-> j - 1]
               /\ Len(out.codes) = WordInt(out.declared)
               /\ out.text = ValidChars(out.codes)
               /\ Len(out.text) = WordInt(out.declared) - Invalid(out.codes)
    /\ (pc = "sw_read") =>
          /\ JustWrote(SOFT_VERSION_INDEX_REG, sw_i)
          /\ Len(sw_read) = sw_i
          /\ Len(written[SOFT_VERSION_INDEX_REG]) = sw_i + 1
    /\ (pc = "sw_write") =>
          /\ Len(sw_read) = sw_i
          /\ Len(written[SOFT_VERSION_INDEX_REG]) = sw_i

\* C7 witness: declared length 5, code 300 at index 3, a result of length 4
C7_Witness ==
    /\ out.kind = "software" /\ out.declared = Word(5)
    /\ out.codes = << Word(65), Word(66), Word(65), Word(300), Word(66) >>
    /\ out.text = << 65, 66, 65, 66 >>

\* the FOURCC the claim C8 names for type code t and order code o
C8_Fourcc(t, o) ==
    IF t \in { Word(42), Word(43), Word(44) }
    THEN IF o \in { Word(n) : n \in 0..4 }
         THEN << "BGGR", "GBRG", "GRBG", "RGGB", "MONO" >>[WordInt(o) + 1]
         ELSE "RGGB"
    ELSE IF t \in { Word(24), Word(25), Word(30) }
    THEN IF o \in { Word(n) : n \in 0..3 }
         THEN << "YUYV", "YVYU", "UYVY", "VYUY" >>[WordInt(o) + 1]
         ELSE "YUYV"
    ELSE IF t = Word(48) THEN "MJPG"
    ELSE "UNKN"

\* C8: the FOURCC list_formats derives is the Bayer entry (default RGGB) for
\* the RAW types, the YUV entry (default YUYV) for the YUV types, MJPG for
\* 0x30 and UNKN for every other type; one is always derived
C8_FourccDerivation ==
    (pc = "res_write") =>
        /\ fourcc = C8_Fourcc(pix_type, pix_order)
        /\ fourcc \in { "BGGR", "GBRG", "GRBG", "RGGB", "MONO", "YUYV", "YVYU",
                        "UYVY", "VYUY", "MJPG", "UNKN" }

\* C8 witness: RAW10 with the unmapped order 6 has been decoded to RGGB
C8_Witness ==
    /\ pc = "res_write" /\ pix_type = Word(43) /\ pix_order = Word(6)
    /\ fourcc = "RGGB"

\* C9: the sentinel is never kept or printed as data: no resolution entry
\* holds it as width, height or max_fps, and no PixelFormat, resolution or
\* control line prints it as lane count, size or bound
C9_NoSentinelReported ==
    /\ \A j \in 1..Len(resolutions) :
          /\ resolutions[j].width # NO_DATA_AVAILABLE
          /\ resolutions[j].height # NO_DATA_AVAILABLE
          /\ resolutions[j].max_fps # NO_DATA_AVAILABLE
    /\ (out.kind = "fmt") => out.lanes # NO_DATA_AVAILABLE
    /\ (out.kind = "res") =>
          /\ out.width # NO_DATA_AVAILABLE
          /\ out.height # NO_DATA_AVAILABLE
    /\ (out.kind = "ctrl") =>
          /\ out.max # NO_DATA_AVAILABLE
          /\ out.min # NO_DATA_AVAILABLE
          /\ out.def # NO_DATA_AVAILABLE

\* the indices w count up from 0 by one
CountsUp(w) == \A j \in 1..Len(w) : w[j] = j - 1

\* every presence read is next after the write of the loop's index to the
\* matching index register
PresenceFollowsWrite ==
    /\ pc = "pix_read" => JustWrote(PIXFORMAT_INDEX_REG, pix_index)
    /\ pc = "res_read" => JustWrote(RESOLUTION_INDEX_REG, index)
    /\ pc = "fr_read" => JustWrote(CTRL_INDEX_REG, ctrl_index)
    /\ pc = "ctl_read" => JustWrote(CTRL_INDEX_REG, main_ctrl_index)

\* C10 as claimed: in every pass the indices written start at 0 and go up by
\* exactly 1, and every presence read is next after the write of its index
C10_IndicesCountUp ==
    /\ CountsUp(written[PIXFORMAT_INDEX_REG])
    /\ CountsUp(written[RESOLUTION_INDEX_REG])
    /\ CountsUp(written[CTRL_INDEX_REG])
    /\ PresenceFollowsWrite

\* the Framerate lookup is under way or was the last pass over the control
\* index: inside enum_resolutions, or just returned from it
InFramerateLookup ==
    pc \in ResPcs \/ pc = "lf_print" \/ (pc = "res_for" /\ res_i = 0)

\* C10 as amended: as claimed, except that the Framerate lookup writes index
\* 0 twice at its start (line 151 before the loop, line 155 in its first
\* iteration) and counts up by 1 from there
C10_IndicesCountUpFrom0 ==
    /\ CountsUp(written[PIXFORMAT_INDEX_REG])
    /\ CountsUp(written[RESOLUTION_INDEX_REG])
    /\ IF InFramerateLookup
       THEN \/ written[CTRL_INDEX_REG] = << >>
            \/ /\ Head(written[CTRL_INDEX_REG]) = 0
               /\ CountsUp(Tail(written[CTRL_INDEX_REG]))
       ELSE CountsUp(written[CTRL_INDEX_REG])
    /\ PresenceFollowsWrite
    /\ pc = "fr_read" => Len(written[CTRL_INDEX_REG]) = ctrl_index + 2
    /\ pc = "ctl_read" => Len(written[CTRL_INDEX_REG]) = main_ctrl_index + 1
    /\ pc = "res_read" => Len(written[RESOLUTION_INDEX_REG]) = index + 1
    /\ pc = "pix_read" => Len(written[PIXFORMAT_INDEX_REG]) = pix_index + 1

\* C10 witness: the Framerate lookup is about to read the id of control 1,
\* having written 0, 0, 1
C10_Witness ==
    /\ pc = "fr_read" /\ written[CTRL_INDEX_REG] = << 0, 0, 1 >>
    /\ index = 1 /\ written[RESOLUTION_INDEX_REG] = << 0, 1 >>

\* positions of the identity block and of get_software_fw_version: the
\* register operations of Identifying
IdentPcs ==
    { "read_device_id", "read_device_version", "read_sensor_id",
      "read_unique_id", "sw_read_len", "sw_write", "sw_read" }

\* positions of the pixel-format loop: the register operations of
\* EnumeratingFormats
PixPcs ==
    { "pix_write", "pix_read", "pix_read_type", "pix_read_order",
      "pix_read_lanes" }

\* positions of the register operations of the control loop of main
CtlOpPcs ==
    { "ctl_write", "ctl_read", "ctl_reset", "ctl_read_max", "ctl_read_min",
      "ctl_read_def" }

\* the state whose register operation is performed at position p:
\* 1 Identifying, 2 EnumeratingFormats, 3 EnumeratingResolutions (all of
\* enum_resolutions, its Framerate lookup included), 4 EnumeratingControls,
\* 5 the closing write of line 353; 0 where no register is operated
StateOfPc(p) ==
    IF p \in IdentPcs THEN 1
    ELSE IF p \in PixPcs THEN 2
    ELSE IF p \in ResPcs THEN 3
    ELSE IF p \in CtlOpPcs THEN 4
    ELSE IF p = "final_write" THEN 5
    ELSE 0

\* the earliest state that operates register r (the control registers are
\* operated by enum_resolutions already)
StateOfReg(r) ==
    IF r \in { DEVICE_ID_REG, DEVICE_VERSION_REG, FIRMWARE_SENSOR_ID_REG,
               UNIQUE_ID_REG, SOFT_VERSION_LEN_REG, SOFT_VERSION_INDEX_REG,
               SOFT_VERSION_REG } THEN 1
    ELSE IF r \in { PIXFORMAT_INDEX_REG, PIXFORMAT_TYPE_REG,
                    PIXFORMAT_ORDER_REG, MIPI_LANES_REG } THEN 2
    ELSE IF r \in { RESOLUTION_INDEX_REG, FORMAT_WIDTH_REG, FORMAT_HEIGHT_REG,
                    CTRL_INDEX_REG, CTRL_ID_REG, CTRL_MIN_REG, CTRL_MAX_REG,
                    CTRL_DEF_REG, CTRL_VALUE_REG } THEN 3
    ELSE 0

\* C11: the full probe of a device never goes back to an earlier state: a
\* register operation of a state is never performed once the previous
\* register operation of the probe belonged to a later state
C11_StatesInOrder ==
    [][ (~list_mode /\ StateOfPc(pc) > 0 /\ pc' # "crashed")
            => StateOfPc(pc) >= StateOfReg(lastOp.reg) ]_vars

\* positions of lines 243-276, before any device is opened, and the exit
\* with failure status
ConfigPcs == { "check_args", "load_mapping", "select", "exit_failure" }

\* both -b and -d are given
Conflict == args_bus # None /\ args_device # None

\* -d names a device that the mapping does not hold or maps to null
Unmapped ==
    /\ args_bus = None /\ args_device # None /\ mapping_exists
    /\ \A i \in 1..Len(mapping) :
          mapping[i].name = args_device[Len(args_device)]
              => mapping[i].info = None

\* no bus was opened and no register read or written
Untouched ==
    /\ devices_to_probe = << >> /\ status = << >> /\ dev_i = 0
    /\ lastOp = NoOp /\ regs = FreshRegs /\ written = FreshWritten

\* C12: with -b and -d both given the run does not get past line 245, with
\* no mapping file (whether or not -b is given) not past line 261, with -d
\* naming an absent or null device not past line 271; the run then ends with
\* failure status, and until line 276 is passed no bus is opened and no
\* register read or written
C12_ConfigErrorIsFatal ==
    /\ Conflict => pc \in { "check_args", "exit_failure" }
    /\ ~mapping_exists => pc \in { "check_args", "load_mapping", "exit_failure" }
    /\ Unmapped => pc \in ConfigPcs
    /\ pc \in ConfigPcs => Untouched
    /\ pc = "exit_failure" => (Conflict \/ ~mapping_exists \/ Unmapped)

\* C12 witness: -b is given, the mapping file is missing, and the run has
\* ended with failure status
C12_Witness ==
    /\ pc = "exit_failure" /\ args_bus = << 9 >> /\ args_device = None
    /\ ~mapping_exists /\ Untouched

\* the pixel type codes, Bayer order codes, YUV order codes and control ids
\* that the lookup tables of lines 55-110 hold
MappedTypes == { Word(42), Word(43), Word(44), Word(24), Word(25), Word(30),
                 Word(48) }
MappedBayer == { Word(n) : n \in 0..4 }
MappedYuv == { Word(n) : n \in 0..3 }
MappedIds == { << 152, 2321 >>, << 152, 6406 >> }

\* C13: a pixel type, order or control id outside the lookup tables is
\* reported as "Unknown" (a control with its id in hexadecimal), and the
\* enumeration moves to the next index as for a mapped code: every format
\* and every control read is reported, so the entries reported number the
\* indices visited
C13_UnmappedCodesReported ==
    /\ (out.kind = "fmt") =>
          /\ out.raw_type \notin MappedTypes => out.dtype = "Unknown"
          /\ (/\ out.raw_type \in { Word(42), Word(43), Word(44) }
              /\ out.raw_order \notin MappedBayer) => out.order = "Unknown"
          /\ (/\ out.raw_type \in { Word(24), Word(25), Word(30) }
              /\ out.raw_order \notin MappedYuv) => out.order = "Unknown"
          /\ pc = "res_write" /\ out.idx = pix_index
          /\ fmt_count = pix_index + 1
    /\ (out.kind = "ctrl") =>
          /\ out.id \notin MappedIds => out.name = "Unknown"
          /\ out.id = << 18, 13398 >> => out.text = "0x123456"
          /\ out.id = << 152, 6406 >> => out.text = "0x981906"
          /\ pc = "ctl_write" /\ main_ctrl_index = out.idx + 1
          /\ ctrl_count = main_ctrl_index
    /\ (out.kind = "listing") =>
          (out.raw_type \notin MappedTypes => out.pix_name = "Unknown")
    /\ (pc \in PixPcs \cup { "final_write" }) => fmt_count = pix_index
    /\ (pc \in { "ctl_write", "ctl_read" }) => ctrl_count = main_ctrl_index

\* C13 witness: the second control of a resolution is reported under an
\* unmapped id, after a format of unmapped type
C13_Witness ==
    /\ out.kind = "ctrl" /\ out.idx = 1 /\ out.id = << 18, 13398 >>
    /\ out.name = "Unknown" /\ out.text = "0x123456"
    /\ pc = "ctl_write" /\ ctrl_count = 2

\* positions at which a register of the open device is operated
OpPcs ==
    IdentPcs \cup PixPcs \cup ResPcs \cup CtlOpPcs
        \cup { "final_write", "lf_write_pix", "lf_read_type", "lf_read_order" }

\* the probe of a device is over
Finished == { "done", "open_failed", "aborted" }

\* at most one device of the batch is being probed, it is the device of the
\* current iteration, the devices before it are finished and the devices
\* after it untouched; every register operation is on the device being probed
OneProbeAtATime ==
    /\ \A i \in 1..Len(status) :
          /\ i < dev_i => status[i] \in Finished
          /\ i > dev_i => status[i] = "pending"
          /\ status[i] = "probing" => i = dev_i
    /\ pc \in OpPcs => (dev_i \in 1..Len(status) /\ status[dev_i] = "probing")

\* a finished probe is never taken up again and a probe begins only on an
\* untouched device
ProbedOnce ==
    \A i \in 1..Len(status) :
        /\ status[i] \in Finished => status'[i] = status[i]
        /\ (status[i] # "probing" /\ status'[i] = "probing")
              => status[i] = "pending"

\* C14: the probes of a batch are serialized: all register operations
\* between the open of a device and the end of its probe are on that device,
\* and no device of the batch is probed twice
C14_ProbesSerialized == []OneProbeAtATime /\ [][ProbedOnce]_vars

\* C14 witness: the controls of the second device are read after the probe of
\* the first is complete
C14_Witness ==
    /\ Len(status) = 2 /\ dev_i = 2 /\ status[1] = "done"
    /\ status[2] = "probing" /\ pc = "ctl_read_def"

\* the names of the paths of a sequence of paths that do not hold "subdev"
RECURSIVE ScannedNames(_)
ScannedNames(paths) ==
    IF paths = << >> THEN << >>
    ELSE IF Head(paths)[2] = "video-subdev0" THEN ScannedNames(Tail(paths))
    ELSE << Head(paths)[2] >> \o ScannedNames(Tail(paths))

\* the first known sensor for which the parsing produced a bus
FirstSensor ==
    SENSOR_NAMES[CHOOSE k \in 1..Len(SENSOR_NAMES) :
                    /\ detected[SENSOR_NAMES[k]] # << >>
                    /\ \A j \in 1..(k - 1) : detected[SENSOR_NAMES[j]] = << >>]

\* C15: the mapping holds one entry for every path without "subdev" gone
\* through, in order; every entry is null or {bus, addr "0x0c", sensor}; the
\* entry just made is null exactly when the trigger failed or the parsing
\* produced no bus for any known sensor, and otherwise carries the first bus
\* of the list parsed for the first known sensor that has one, a bus the log
\* holds for that sensor; for each device clear_dmesg runs first, then the
\* trigger, and the log is parsed only after a successful trigger
C15_ScanMapping ==
    /\ (pc \in { "scan_for", "scan_done" }) =>
          [k \in 1..Len(mapping) |-> mapping[k].name]
              = ScannedNames(SubSeq(video_devs, 1, scan_i))
    /\ pc = "scan_done" => scan_i = Len(video_devs)
    /\ \A k \in 1..Len(mapping) :
          \/ mapping[k].info = None
          \/ /\ Len(mapping[k].info) = 1
             /\ DOMAIN mapping[k].info[1] = { "bus", "addr", "sensor" }
             /\ mapping[k].info[1].bus \in Nat
             /\ mapping[k].info[1].addr = "0x0c"
             /\ mapping[k].info[1].sensor \in Sensors
    /\ (pc \in { "scan_for", "scan_done" } /\ mapping # << >>) =>
          LET e == mapping[Len(mapping)].info
          IN  /\ (e = None) <=>
                    (~success \/ \A sn \in Sensors : detected[sn] = << >>)
              /\ (e # None) =>
                    /\ e[1].sensor = FirstSensor
                    /\ e[1].bus = detected[FirstSensor][1][2]
                    /\ \E l \in klog : /\ l.sensor = FirstSensor /\ l.match
                                       /\ l.bus = e[1].bus
    /\ scan_ops \in { << >>, << "clear" >>, << "clear", "trigger" >>,
                      << "clear", "trigger", "parse" >> }
    /\ pc = "scan_trigger" => scan_ops = << "clear" >>
    /\ pc = "scan_parse" => (success /\ scan_ops = << "clear", "trigger" >>)
    /\ (scan_ops # << >> /\ scan_ops[Len(scan_ops)] = "parse") => success

\* C15 witness: of three paths the subdev one was skipped, video0 got null
\* after a failed trigger and video1 the bus 10 after a successful one
C15_Witness ==
    /\ pc = "scan_done" /\ Len(video_devs) = 3 /\ Len(mapping) = 2
    /\ mapping[1] = [name |-> "video0", info |-> None]
    /\ mapping[2].name = "video1" /\ mapping[2].info # None
    /\ mapping[2].info[1].bus = 10 /\ success

\* C16: while the controls of the resolution with index r are enumerated in
\* the full probe, the value last written to the resolution-index register
\* is r
C16_ResolutionCursorHeld ==
    (~list_mode /\ pc \in CtlOpPcs \cup { "ctl_wait" }) =>
        regs[RESOLUTION_INDEX_REG] = resolutions[res_i].index

\* C17: once the probe of the current device is complete, in either mode,
\* the value last written to the pixel-format index register is 0
C17_FormatCursorLeftAtZero ==
    (dev_i \in 1..Len(status) /\ status[dev_i] = "done") =>
        regs[PIXFORMAT_INDEX_REG] = 0

\* C17 witness: the full probe of the second device of a batch is complete,
\* line 353 being its last register operation
C17_Witness ==
    /\ ~list_mode /\ dev_i = 2 /\ status[2] = "done" /\ pc = "for_dev"
    /\ JustWrote(PIXFORMAT_INDEX_REG, 0) /\ regs[PIXFORMAT_INDEX_REG] = 0

\* the last element of a non-empty sequence
Last(q) == q[Len(q)]

\* C18: when enum_resolutions has appended a resolution, its control scan
\* wrote the control indices from 0 upwards (0 twice) and read one id after
\* each; every id before the last is neither the sentinel nor 0x981906; the
\* last is 0x981906, followed by the read of the max register at that index
\* with max_fps what it returned, or the sentinel with max_fps None; the
\* entry carries the index last written to the resolution-index register and
\* the next resolution index is that plus 1
C18_MaxFpsFromFirstFramerate ==
    /\ (pc = "res_write" /\ resolutions # << >>) =>
          LET e == Last(resolutions)
          IN  /\ Len(fr_ids) = ctrl_index + 1
              /\ written[CTRL_INDEX_REG] = << 0 >> \o UpTo(ctrl_index)
              /\ \A j \in 1..(Len(fr_ids) - 1) :
                    fr_ids[j] \notin { FRAMERATE_ID, NO_DATA_AVAILABLE }
              /\ Last(fr_ids) \in { FRAMERATE_ID, NO_DATA_AVAILABLE }
              /\ (e.max_fps = None) <=> (Last(fr_ids) = NO_DATA_AVAILABLE)
              /\ Last(fr_ids) = FRAMERATE_ID => JustRead(CTRL_MAX_REG)
              /\ Last(fr_ids) = NO_DATA_AVAILABLE => JustRead(CTRL_ID_REG)
              /\ e.max_fps # None => e.max_fps \in CtrlBoundValues
              /\ regs[RESOLUTION_INDEX_REG] = e.index
              /\ index = e.index + 1
    /\ (pc = "fr_read_max") =>
          /\ Last(fr_ids) = FRAMERATE_ID /\ Len(fr_ids) = ctrl_index + 1
          /\ JustRead(CTRL_ID_REG)
          /\ Last(written[CTRL_INDEX_REG]) = ctrl_index
    /\ (pc \in { "fr_write", "fr_read" }) =>
          /\ Len(fr_ids) = ctrl_index
          /\ \A j \in 1..Len(fr_ids) :
                fr_ids[j] \notin { FRAMERATE_ID, NO_DATA_AVAILABLE }
          /\ regs[RESOLUTION_INDEX_REG] = index

\* C18 witness: the second resolution got max_fps 30 from control 1, control
\* 0 having another id
C18_Witness ==
    /\ pc = "res_write" /\ Len(resolutions) = 2
    /\ fr_ids = << << 18, 13398 >>, FRAMERATE_ID >>
    /\ resolutions[2].max_fps = Word(30) /\ resolutions[2].index = 1
    /\ index = 2

\* number of the mapping entries up to the k-th whose value is not null
NonNullUpTo(k) == Cardinality({ j \in 1..k : mapping[j].info # None })

\* the batch the claim C19 names for the selection that was given
ClaimedBatch(batch) ==
    IF args_bus # None
    THEN batch = << [bus |-> args_bus[1], name |-> "manual"] >>
    ELSE IF args_device # None
    THEN /\ Len(batch) = 1
         /\ batch[1].name = args_device[Len(args_device)]
         /\ \E j \in 1..Len(mapping) :
               /\ mapping[j].name = batch[1].name
               /\ mapping[j].info # None
               /\ mapping[j].info[1].bus = batch[1].bus
    ELSE /\ Len(batch) = NonNullUpTo(Len(mapping))
         /\ \A j \in 1..Len(mapping) :
               mapping[j].info # None =>
                   batch[NonNullUpTo(j)] =
                       [bus |-> mapping[j].info[1].bus, name |-> mapping[j].name]

\* C19: once the devices are chosen, the batch is the given bus alone with
\* -b, the bus mapped to the named device alone with -d, and otherwise the
\* non-null entries of the mapping in mapping order; the devices are opened
\* in that order, none twice and none that is not in the batch, and a run
\* that reaches its end has opened every one of them
C19_ProbedSetFollowsSelection ==
    (pc \notin ConfigPcs) =>
        /\ ClaimedBatch(devices_to_probe)
        /\ Len(status) = Len(devices_to_probe)
        /\ dev_i \in 0..Len(devices_to_probe)
        /\ \A i \in 1..Len(status) :
              /\ i < dev_i => status[i] \in Finished
              /\ i > dev_i => status[i] = "pending"
        /\ pc = "exit" =>
              \A i \in 1..Len(status) : status[i] \in { "done", "open_failed" }

\* C19 witness: a run with neither -b nor -d is over; of the mapping
\* video0 -> null, video1 -> bus 2 it has probed video1 on bus 2 alone
C19_Witness ==
    /\ pc = "exit" /\ args_bus = None /\ args_device = None
    /\ Len(mapping) = 2 /\ mapping[1].info = None /\ mapping[2].info = Info(2)
    /\ devices_to_probe = << [bus |-> 2, name |-> "video1"] >>
    /\ status = << "done" >>
=============================================================================
